---- MODULE Spec2Model ----
(***************************************************************************)
(* Model of connector/google/google.go: the Google OpenID Connect          *)
(* connector (LoginURL, HandleCallback, Refresh, createIdentity) and its   *)
(* group resolution (getGroups, findAdminService, extractDomainFromEmail). *)
(*                                                                         *)
(* Go strings that the code takes apart or compares (emails, domains,      *)
(* URLs) are sequences of one-character strings, so that "substring after  *)
(* the last @" and "exactly equal" are computed, not assumed.  A nil error *)
(* is the empty sequence; a non-nil error is the chain of its messages,    *)
(* outermost first, as fmt.Errorf("...: %v", err) builds it.               *)
(***************************************************************************)
EXTENDS Naturals, Sequences, FiniteSets

VARIABLES
    conn,           \* the googleConnector built by Open (its fields are only read)
    directory,      \* the directory service: member |-> its pages of group emails
    pc,             \* per invocation: where the invocation stands
    op,             \* per invocation: the entry point that was called
    args,           \* per invocation: the arguments of the call
    token,          \* per invocation: the oauth2 token response in hand
    claims,         \* per invocation: the claims decoded from the ID token
    stack,          \* per invocation: the getGroups call stack (innermost last)
    checkedGroups,  \* per invocation: the checkedGroups map of createIdentity
    calls,          \* per invocation: the external calls made so far, in order
    result          \* per invocation: what the entry point returned

vars == <<conn, directory, pc, op, args, token, claims, stack, checkedGroups, calls, result>>

-----------------------------------------------------------------------------
(* Bounds of the model *)

\* longest list of groups the directory reports for one member
MaxListLen == 2
\* largest number of groups the directory puts on one page
MaxPageSize == 2

\* the invocations in flight
Procs == {"p1"}

-----------------------------------------------------------------------------
(* Strings *)

nil == <<>>

wildcardDomainToAdminEmail == <<"*">>

\* the members the directory knows: a user and two groups
alice == <<"u", "@", "a">>
eng == <<"e", "@", "b", "@", "a">>
all == <<"l">>

Users == {alice}
Groups == {eng, all}
Members == Users \cup Groups

\* strings.LastIndex(s, "@"), counted from 1; 0 when there is none
LastIndexAt(s) ==
    IF \E i \in 1..Len(s) : s[i] = "@"
    THEN CHOOSE i \in 1..Len(s) : s[i] = "@" /\ \A j \in (i+1)..Len(s) : s[j] # "@"
    ELSE 0

\* mutant: the domain is cut at the first "@"
extractDomainFirstAt(email) ==
    IF \E i \in 1..Len(email) : email[i] = "@"
    THEN LET at == CHOOSE i \in 1..Len(email) :
                       email[i] = "@" /\ \A j \in 1..(i-1) : email[j] # "@"
         IN SubSeq(email, at + 1, Len(email))
    ELSE wildcardDomainToAdminEmail

extractDomainFromEmail(email) ==
    LET at == LastIndexAt(email)
    IN IF at >= 1 THEN SubSeq(email, at + 1, Len(email))
                  ELSE wildcardDomainToAdminEmail

-----------------------------------------------------------------------------
(* Directory routing table *)

\* an admin.Service is named by the domain key it was created for
NoService == [domain |-> nil]

ServiceFor(domain) == [domain |-> domain]

DomainKeys == {<<"a">>, wildcardDomainToAdminEmail}

AdminSrvTables == {[d \in K |-> ServiceFor(d)] : K \in SUBSET DomainKeys}

\* mutant: a domain without a route gets no error and no service
findAdminServiceNoError(adminSrv, domain) ==
    IF domain \in DOMAIN adminSrv
    THEN [srv |-> adminSrv[domain], err |-> nil]
    ELSE IF wildcardDomainToAdminEmail \in DOMAIN adminSrv
         THEN [srv |-> adminSrv[wildcardDomainToAdminEmail], err |-> nil]
         ELSE [srv |-> NoService, err |-> nil]

findAdminService(adminSrv, domain) ==
    IF domain \in DOMAIN adminSrv
    THEN [srv |-> adminSrv[domain], err |-> nil]
    ELSE IF wildcardDomainToAdminEmail \in DOMAIN adminSrv
         THEN [srv |-> adminSrv[wildcardDomainToAdminEmail], err |-> nil]
         ELSE [srv |-> NoService, err |-> <<"unable to find super admin email">>]

-----------------------------------------------------------------------------
(* The directory service: Groups.List().UserKey(k).PageToken(t).Do() *)

\* page tokens: 0 is the empty token, n > 0 names the page after page n
EmptyPageToken == 0

SeqsUpTo(S, n) == UNION {[1..k -> S] : k \in 0..n}

Listings == SeqsUpTo(Groups, MaxListLen)

RECURSIVE Chunk(_, _)
Chunk(list, size) ==
    IF Len(list) <= size THEN <<list>>
    ELSE <<SubSeq(list, 1, size)>> \o Chunk(SubSeq(list, size + 1, Len(list)), size)

AllDirectories ==
    {[m \in Members |-> Chunk(l[m], size)] : l \in [Members -> Listings], size \in 1..MaxPageSize}

\* the page the directory returns for a member and a page token
GroupsListDo(member, pageToken) ==
    LET pages == directory[member]
        n == pageToken + 1
    IN [Groups |-> pages[n],
        NextPageToken |-> IF n < Len(pages) THEN n ELSE EmptyPageToken]

\* the groups the directory reports for a member, over all its pages
RECURSIVE Flatten(_)
Flatten(pages) == IF pages = <<>> THEN <<>> ELSE Head(pages) \o Flatten(Tail(pages))

Range(s) == {s[i] : i \in 1..Len(s)}

DirectGroups(member) == Range(Flatten(directory[member]))

\* the groups reachable from a member through one or more membership edges
RECURSIVE ReachFrom(_, _)
ReachFrom(frontier, seen) ==
    LET next == (UNION {DirectGroups(m) : m \in frontier}) \ seen
    IN IF next = {} THEN seen ELSE ReachFrom(next, seen \cup next)

Closure(member) == ReachFrom({member}, {})

-----------------------------------------------------------------------------
(* getGroups: one frame per call in progress *)

\* the frame returns (groups, err)
Returning(f, groups, err) == [f EXCEPT !.pc = "return", !.userGroups = groups, !.err = err]

\* lines 285-293: a call of getGroups up to its first page request: the route
\* of the member is looked up, and a member without a route returns at once
NewFrame(email, fetchTransitiveGroupMembership) ==
    LET r == findAdminService(conn.adminSrv, extractDomainFromEmail(email))
        f == [email |-> email,
              fetchTransitiveGroupMembership |-> fetchTransitiveGroupMembership,
              pc |-> "list",
              adminSrv |-> r.srv,
              groupsList |-> [Groups |-> <<>>, NextPageToken |-> EmptyPageToken],
              i |-> 1,
              userGroups |-> <<>>,
              err |-> nil]
    IN IF r.err # nil THEN Returning(f, nil, r.err) ELSE f

\* mutant: the loop returns after the first page whatever the page token is
NextPageFirstOnly(f) ==
    IF f.i <= Len(f.groupsList.Groups) THEN f
    ELSE Returning(f, f.userGroups, nil)

\* lines 302 and 324-329: past the last group of a page the loop asks for the
\* next page, or returns what it gathered when the page token is empty
NextPage(f) ==
    IF f.i <= Len(f.groupsList.Groups) THEN f
    ELSE IF f.groupsList.NextPageToken = EmptyPageToken
         THEN Returning(f, f.userGroups, nil)
         ELSE [f EXCEPT !.pc = "list"]

Top(p) == stack[p][Len(stack[p])]

InGetGroups(p) == pc[p] = "getGroups" /\ stack[p] # <<>>

\* an external call as it is logged in calls, with whether it succeeded
Call(kind, adminSrv, userKey, pageToken, grant, ok) ==
    [kind |-> kind, adminSrv |-> adminSrv, userKey |-> userKey,
     pageToken |-> pageToken, grant |-> grant, ok |-> ok]

ListCall(f, ok) == Call("list", f.adminSrv, f.email, f.groupsList.NextPageToken, "", ok)

\* mutant: a group seen before is taken up again
alreadyCheckedNever(checked, email) == FALSE

alreadyChecked(checked, email) == email \in checked

\* mutant: the group is not recorded as checked
markCheckedForgets(checked, email) == checked

markChecked(checked, email) == checked \cup {email}

\* mutant: nested groups are listed whatever the flag says
recurseAlways(fetchTransitiveGroupMembership) == TRUE

\* mutant: nested groups are never listed
recurseNever(fetchTransitiveGroupMembership) == FALSE

recurse(fetchTransitiveGroupMembership) == fetchTransitiveGroupMembership

\* mutant: a failed listing returns what was gathered so far
listFailedPartial(f) == Returning(f, f.userGroups, nil)

listFailed(f) == Returning(f, nil, <<"could not list groups">>)

\* mutant: a failed nested call is skipped and the walk goes on
transitiveFailedSkips(f, err) == NextPage([f EXCEPT !.pc = "range", !.i = f.i + 1])

transitiveFailed(f, err) == Returning(f, nil, <<"could not list transitive groups">> \o err)

\* lines 295-300: one page request, which the directory answers or fails
getGroupsList(p) ==
    /\ InGetGroups(p)
    /\ Top(p).pc = "list"
    /\ LET f == Top(p)
       IN \E ok \in BOOLEAN :
            /\ calls' = [calls EXCEPT ![p] = Append(@, ListCall(f, ok))]
            /\ stack' = [stack EXCEPT ![p][Len(stack[p])] =
                            IF ~ok THEN listFailed(f)
                            ELSE NextPage([f EXCEPT
                                     !.groupsList =
                                         GroupsListDo(f.email, f.groupsList.NextPageToken),
                                     !.i = 1,
                                     !.pc = "range"])]
    /\ UNCHANGED <<conn, directory, pc, op, args, token, claims, checkedGroups, result>>

\* lines 302-316: the next group of the page
getGroupsRange(p) ==
    /\ InGetGroups(p)
    /\ Top(p).pc = "range"
    /\ LET f == Top(p)
           n == Len(stack[p])
           group == f.groupsList.Groups[f.i]
           visited == [f EXCEPT !.userGroups = Append(f.userGroups, group)]
       IN IF alreadyChecked(checkedGroups[p], group)
          THEN /\ stack' = [stack EXCEPT ![p][n] = NextPage([f EXCEPT !.i = f.i + 1])]
               /\ UNCHANGED checkedGroups
          ELSE /\ checkedGroups' = [checkedGroups EXCEPT ![p] = markChecked(@, group)]
               /\ IF ~recurse(f.fetchTransitiveGroupMembership)
                  THEN stack' = [stack EXCEPT ![p][n] =
                                    NextPage([visited EXCEPT !.i = f.i + 1])]
                  ELSE stack' = [stack EXCEPT ![p] =
                                    Append([stack[p] EXCEPT ![n] = [visited EXCEPT !.pc = "call"]],
                                           NewFrame(group, f.fetchTransitiveGroupMembership))]
    /\ UNCHANGED <<conn, directory, pc, op, args, token, claims, calls, result>>

\* mutant: the groups of the nested call are put before those gathered so far
prependTransitive(userGroups, transitiveGroups) == transitiveGroups \o userGroups

\* line 321: userGroups = append(userGroups, transitiveGroups...)
appendTransitive(userGroups, transitiveGroups) == userGroups \o transitiveGroups

\* lines 316-321: a nested call returns to the loop that made it
getGroupsReturnNested(p) ==
    /\ InGetGroups(p)
    /\ Top(p).pc = "return"
    /\ Len(stack[p]) > 1
    /\ LET callee == Top(p)
           n == Len(stack[p]) - 1
           f == stack[p][n]
       IN stack' = [stack EXCEPT ![p] =
                       [SubSeq(stack[p], 1, n) EXCEPT ![n] =
                           IF callee.err # nil THEN transitiveFailed(f, callee.err)
                           ELSE NextPage([f EXCEPT
                                    !.userGroups =
                                        appendTransitive(f.userGroups, callee.userGroups),
                                    !.i = f.i + 1,
                                    !.pc = "range"])]]
    /\ UNCHANGED <<conn, directory, pc, op, args, token, claims, checkedGroups, calls, result>>

\* lines 285-288 and 329: getGroups called on its own, and its return to that caller
CallGetGroups(p) ==
    /\ pc[p] = "idle"
    /\ \E email \in Members, fetchTransitiveGroupMembership \in BOOLEAN :
          /\ args' = [args EXCEPT ![p].email = email,
                                  ![p].fetchTransitiveGroupMembership =
                                      fetchTransitiveGroupMembership]
          /\ stack' = [stack EXCEPT ![p] = <<NewFrame(email, fetchTransitiveGroupMembership)>>]
    /\ op' = [op EXCEPT ![p] = "getGroups"]
    /\ pc' = [pc EXCEPT ![p] = "getGroups"]
    /\ checkedGroups' = [checkedGroups EXCEPT ![p] = {}]
    /\ UNCHANGED <<conn, directory, token, claims, calls, result>>

getGroupsReturn(p) ==
    /\ InGetGroups(p)
    /\ op[p] = "getGroups"
    /\ Top(p).pc = "return"
    /\ Len(stack[p]) = 1
    /\ result' = [result EXCEPT ![p].groups = Top(p).userGroups, ![p].err = Top(p).err]
    /\ pc' = [pc EXCEPT ![p] = "done"]
    /\ stack' = [stack EXCEPT ![p] = <<>>]
    /\ UNCHANGED <<conn, directory, op, args, token, claims, checkedGroups, calls>>

-----------------------------------------------------------------------------
(* connector.Identity, connector.Scopes and the arguments of the entry points *)

EmptyIdentity ==
    [UserID |-> "", Username |-> "", Email |-> <<>>, EmailVerified |-> FALSE,
     ConnectorData |-> "", Groups |-> <<>>]

\* an identity the host stored at an earlier login
StoredIdentity ==
    [UserID |-> "sub0", Username |-> "Old", Email |-> alice, EmailVerified |-> TRUE,
     ConnectorData |-> "rt0", Groups |-> <<eng>>]

RefreshIdentities == {StoredIdentity, [StoredIdentity EXCEPT !.ConnectorData = ""]}

ScopesSet == [Groups : BOOLEAN, OfflineAccess : BOOLEAN]

EmptyQuery == [error |-> "", error_description |-> "", code |-> ""]

Queries ==
    [error : {"", "access_denied"}, error_description : {"", "user cancelled"}, code : {"c1"}]

NoArgs ==
    [s |-> [Groups |-> FALSE, OfflineAccess |-> FALSE],
     callbackURL |-> <<>>, state |-> "",
     q |-> EmptyQuery,
     identity |-> EmptyIdentity,
     email |-> <<>>, fetchTransitiveGroupMembership |-> FALSE]

NoURL == [set |-> FALSE, redirect_uri |-> <<>>, state |-> "", hd |-> <<>>,
          access_type |-> "", prompt |-> ""]

NoResult == [identity |-> EmptyIdentity, err |-> nil, url |-> NoURL, groups |-> <<>>]

NoToken == [hasIDToken |-> FALSE, valid |-> FALSE, decodes |-> FALSE, Subject |-> "",
            Username |-> "", Email |-> <<>>, EmailVerified |-> FALSE,
            HostedDomain |-> <<>>, RefreshToken |-> ""]

NoClaims == [Username |-> "", Email |-> <<>>, EmailVerified |-> FALSE, HostedDomain |-> <<>>]

\* hosted domains and hd claims: a domain, its upper-case spelling, a longer one, another
HdA == <<"a">>
HdUpperA == <<"A">>
HdAB == <<"a", "b">>
HdB == <<"b">>

HostedDomainClaims == {<<>>, HdA, HdUpperA, HdAB, HdB}

HostedDomainLists == {<<>>, <<HdA>>, <<HdA, HdB>>, <<HdAB>>}

\* what the token endpoint may answer: the ID token may be missing, fail
\* verification, fail to decode, or carry claims
TokenResponses ==
    {[NoToken EXCEPT !.RefreshToken = "rt1"]}
    \cup {[NoToken EXCEPT !.hasIDToken = TRUE, !.RefreshToken = "rt1"]}
    \cup {[NoToken EXCEPT !.hasIDToken = TRUE, !.valid = TRUE, !.RefreshToken = "rt1"]}
    \cup {[hasIDToken |-> TRUE, valid |-> TRUE, decodes |-> TRUE, Subject |-> "sub1",
           Username |-> "Alice", Email |-> alice, EmailVerified |-> TRUE,
           HostedDomain |-> hd, RefreshToken |-> rt] :
              hd \in HostedDomainClaims, rt \in {"", "rt1"}}

-----------------------------------------------------------------------------
(* Returning from an entry point *)

\* an entry point returns (identity, err)
Return(p, identity, err) ==
    /\ result' = [result EXCEPT ![p].identity = identity, ![p].err = err]
    /\ pc' = [pc EXCEPT ![p] = "done"]

-----------------------------------------------------------------------------
(* LoginURL *)

RedirectURI == <<"h", "/", "c">>

CallbackURLs == {RedirectURI, <<"h", "/">>, <<"h", "/", "c", "x">>, <<"H", "/", "c">>}

\* mutant: a callback URL that the configured URI starts with is accepted
redirectMatchesPrefix(redirectURI, callbackURL) ==
    /\ Len(callbackURL) <= Len(redirectURI)
    /\ SubSeq(redirectURI, 1, Len(callbackURL)) = callbackURL

redirectMatches(redirectURI, callbackURL) == redirectURI = callbackURL

\* mutant: the first configured domain is the hint however many there are
preferredDomainFirst(hostedDomains) == hostedDomains[1]

\* lines 171-174: the hd hint for a non-empty list of hosted domains
preferredDomain(hostedDomains) ==
    IF Len(hostedDomains) > 1 THEN <<"*">> ELSE hostedDomains[1]

\* lines 169-181: the authorization URL and its parameters
AuthCodeURL(redirectURI, hostedDomains, s, state) ==
    [set |-> TRUE,
     redirect_uri |-> redirectURI,
     state |-> state,
     hd |-> IF Len(hostedDomains) > 0
            THEN <<preferredDomain(hostedDomains)>>
            ELSE <<>>,
     access_type |-> IF s.OfflineAccess THEN "offline" ELSE "",
     prompt |-> IF s.OfflineAccess THEN "consent" ELSE ""]

LoginURL(p) ==
    /\ pc[p] = "idle"
    /\ \E s \in ScopesSet, callbackURL \in CallbackURLs :
          /\ args' = [args EXCEPT ![p].s = s, ![p].callbackURL = callbackURL,
                                  ![p].state = "st"]
          /\ result' = [result EXCEPT ![p] =
                IF ~redirectMatches(conn.redirectURI, callbackURL)
                THEN [@ EXCEPT !.url = NoURL,
                               !.err = <<"expected callback URL did not match the URL in the config">>]
                ELSE [@ EXCEPT !.url = AuthCodeURL(conn.redirectURI, conn.hostedDomains, s, "st"),
                               !.err = nil]]
    /\ op' = [op EXCEPT ![p] = "LoginURL"]
    /\ pc' = [pc EXCEPT ![p] = "done"]
    /\ UNCHANGED <<conn, directory, token, claims, stack, checkedGroups, calls>>

-----------------------------------------------------------------------------
(* HandleCallback and Refresh *)

\* mutant: the description the provider sent is dropped
oauth2ErrorNoDescription(q) == <<"oauth2Error", q.error, "">>

\* lines 184-187, 199: the oauth2Error built from the query
oauth2Error(q) == <<"oauth2Error", q.error, q.error_description>>

\* mutant: the error parameter of the query is not looked at
callbackDeniedIgnored(q) == FALSE

callbackDenied(q) == q.error # ""

HandleCallback(p) ==
    /\ pc[p] = "idle"
    /\ op' = [op EXCEPT ![p] = "HandleCallback"]
    /\ \E s \in ScopesSet, q \in Queries :
          /\ args' = [args EXCEPT ![p].s = s, ![p].q = q, ![p].identity = EmptyIdentity]
          /\ IF callbackDenied(q)
             THEN Return(p, EmptyIdentity, oauth2Error(q))
             ELSE /\ pc' = [pc EXCEPT ![p] = "exchange"]
                  /\ UNCHANGED result
    /\ UNCHANGED <<conn, directory, token, claims, stack, checkedGroups, calls>>

\* lines 201-206: oauth2Config.Exchange, which the token endpoint answers or fails
Exchange(p) ==
    /\ pc[p] = "exchange"
    /\ \/ /\ calls' = [calls EXCEPT ![p] =
                    Append(@, Call("exchange", NoService, <<>>, 0, args[p].q.code, FALSE))]
          /\ Return(p, args[p].identity, <<"google: failed to get token", "exchange failed">>)
          /\ UNCHANGED token
       \/ /\ calls' = [calls EXCEPT ![p] =
                    Append(@, Call("exchange", NoService, <<>>, 0, args[p].q.code, TRUE))]
          /\ \E t \in TokenResponses : token' = [token EXCEPT ![p] = t]
          /\ pc' = [pc EXCEPT ![p] = "createIdentity"]
          /\ UNCHANGED result
    /\ UNCHANGED <<conn, directory, op, args, claims, stack, checkedGroups>>

Refresh(p) ==
    /\ pc[p] = "idle"
    /\ op' = [op EXCEPT ![p] = "Refresh"]
    /\ \E s \in ScopesSet, identity \in RefreshIdentities :
          args' = [args EXCEPT ![p].s = s, ![p].identity = identity]
    /\ pc' = [pc EXCEPT ![p] = "tokenSource"]
    /\ UNCHANGED <<conn, directory, token, claims, stack, checkedGroups, calls, result>>

\* lines 210-219: the token source of an expired token holding the stored refresh
\* token; without a refresh token it fails before asking the token endpoint, and
\* an answer without a refresh token keeps the one that was presented
TokenSourceToken(p) ==
    /\ pc[p] = "tokenSource"
    /\ LET t == [RefreshToken |-> args[p].identity.ConnectorData, expired |-> TRUE]
       IN IF t.RefreshToken = ""
          THEN /\ Return(p, args[p].identity,
                         <<"google: failed to get token", "refresh token is not set">>)
               /\ UNCHANGED <<token, calls>>
          ELSE \/ /\ calls' = [calls EXCEPT ![p] =
                            Append(@, Call("refresh", NoService, <<>>, 0, t.RefreshToken, FALSE))]
                  /\ Return(p, args[p].identity,
                            <<"google: failed to get token", "refresh failed">>)
                  /\ UNCHANGED token
               \/ /\ calls' = [calls EXCEPT ![p] =
                            Append(@, Call("refresh", NoService, <<>>, 0, t.RefreshToken, TRUE))]
                  /\ \E r \in TokenResponses :
                            token' = [token EXCEPT ![p] =
                                [r EXCEPT !.RefreshToken =
                                    IF r.RefreshToken = "" THEN t.RefreshToken
                                    ELSE r.RefreshToken]]
                  /\ pc' = [pc EXCEPT ![p] = "createIdentity"]
                  /\ UNCHANGED result
    /\ UNCHANGED <<conn, directory, op, args, claims, stack, checkedGroups>>

-----------------------------------------------------------------------------
(* createIdentity *)

ToLower(str) ==
    [i \in 1..Len(str) |-> IF str[i] = "A" THEN "a" ELSE IF str[i] = "B" THEN "b" ELSE str[i]]

\* mutant: the hd claim is compared without regard to case
hostedDomainAllowedFold(hostedDomains, hd) ==
    Len(hostedDomains) > 0 =>
        \E i \in 1..Len(hostedDomains) : ToLower(hostedDomains[i]) = ToLower(hd)

\* lines 242-254: the hd claim against the configured hosted domains
hostedDomainAllowed(hostedDomains, hd) ==
    Len(hostedDomains) > 0 => \E i \in 1..Len(hostedDomains) : hostedDomains[i] = hd

\* pkg/groups.Filter: the given groups that are among the required ones
Filter(given, required) == SelectSeq(given, LAMBDA g : g \in Range(required))

\* mutant: group resolution runs whatever the request scope says
resolveGroupsAlways(s, adminSrv) == Cardinality(DOMAIN adminSrv) > 0

\* line 257: whether the groups are resolved at all
resolveGroups(s, adminSrv) == s.Groups /\ Cardinality(DOMAIN adminSrv) > 0

\* mutant: an empty intersection with the whitelist is let through
whitelistedNoEmptyCheck(groups, whitelist) ==
    IF Len(whitelist) > 0 THEN [groups |-> Filter(groups, whitelist), err |-> nil]
    ELSE [groups |-> groups, err |-> nil]

\* mutant: the whitelist only gates the login and the groups stay unfiltered
whitelistedUnfiltered(groups, whitelist) ==
    IF Len(whitelist) > 0 /\ Len(Filter(groups, whitelist)) = 0
    THEN [groups |-> <<>>, err |-> <<"google: user is not in any of the required groups">>]
    ELSE [groups |-> groups, err |-> nil]

\* lines 264-269: the resolved groups against the configured whitelist
whitelisted(groups, whitelist) ==
    IF Len(whitelist) > 0
    THEN LET filtered == Filter(groups, whitelist)
         IN IF Len(filtered) = 0
            THEN [groups |-> filtered,
                  err |-> <<"google: user is not in any of the required groups">>]
            ELSE [groups |-> filtered, err |-> nil]
    ELSE [groups |-> groups, err |-> nil]

\* mutant: the refresh token of the token response is left out of the identity
NewIdentityNoConnectorData(t, c, groups) ==
    [UserID |-> t.Subject, Username |-> c.Username, Email |-> c.Email,
     EmailVerified |-> c.EmailVerified, ConnectorData |-> "",
     Groups |-> groups]

\* lines 272-279: the identity assembled from the token, the claims and the groups
NewIdentity(t, c, groups) ==
    [UserID |-> t.Subject, Username |-> c.Username, Email |-> c.Email,
     EmailVerified |-> c.EmailVerified, ConnectorData |-> t.RefreshToken,
     Groups |-> groups]

\* mutant: a failed group resolution yields an identity without groups
groupsFailedTolerated(identity, t, c, err) ==
    [identity |-> NewIdentity(t, c, <<>>), err |-> nil]

\* mutant: the identity is assembled before the group resolution error returns
groupsFailedNewIdentity(identity, t, c, err) ==
    [identity |-> NewIdentity(t, c, <<>>), err |-> <<"google: could not retrieve groups">> \o err]

\* lines 260-262: group resolution failed
groupsFailed(identity, t, c, err) ==
    [identity |-> identity, err |-> <<"google: could not retrieve groups">> \o err]

\* lines 223-226
createIdentityIDToken(p) ==
    /\ pc[p] = "createIdentity"
    /\ IF ~token[p].hasIDToken
       THEN Return(p, args[p].identity, <<"google: no id_token in token response">>)
       ELSE /\ pc' = [pc EXCEPT ![p] = "verify"]
            /\ UNCHANGED result
    /\ UNCHANGED <<conn, directory, op, args, token, claims, stack, checkedGroups, calls>>

\* lines 227-230: verifier.Verify
createIdentityVerify(p) ==
    /\ pc[p] = "verify"
    /\ calls' = [calls EXCEPT ![p] = Append(@, Call("verify", NoService, <<>>, 0, "", token[p].valid))]
    /\ IF ~token[p].valid
       THEN Return(p, args[p].identity, <<"google: failed to verify ID Token", "verify failed">>)
       ELSE /\ pc' = [pc EXCEPT ![p] = "claims"]
            /\ UNCHANGED result
    /\ UNCHANGED <<conn, directory, op, args, token, claims, stack, checkedGroups>>

\* mutant: one checkedGroups map is shared by the invocations of the connector
makeCheckedGroupsShared(inUse) == inUse

\* line 258: checkedGroups := make(map[string]struct{}), whatever maps other
\* invocations hold
makeCheckedGroups(inUse) == {}

\* the groups in the checkedGroups maps of the other invocations
CheckedElsewhere(p) == UNION {checkedGroups[q] : q \in DOMAIN checkedGroups \ {p}}

\* lines 232-259 and, when no groups are resolved, 272-280
createIdentityClaims(p) ==
    /\ pc[p] = "claims"
    /\ LET t == token[p]
           c == [Username |-> t.Username, Email |-> t.Email,
                 EmailVerified |-> t.EmailVerified, HostedDomain |-> t.HostedDomain]
       IN IF ~t.decodes
          THEN /\ Return(p, args[p].identity, <<"oidc: failed to decode claims", "decode failed">>)
               /\ UNCHANGED <<claims, stack, checkedGroups>>
          ELSE /\ claims' = [claims EXCEPT ![p] = c]
               /\ IF ~hostedDomainAllowed(conn.hostedDomains, c.HostedDomain)
                  THEN /\ Return(p, args[p].identity, <<"oidc: unexpected hd claim">>)
                       /\ UNCHANGED <<stack, checkedGroups>>
                  ELSE IF resolveGroups(args[p].s, conn.adminSrv)
                       THEN /\ checkedGroups' = [checkedGroups EXCEPT ![p] =
                                  makeCheckedGroups(CheckedElsewhere(p))]
                            /\ stack' = [stack EXCEPT ![p] =
                                  <<NewFrame(c.Email, conn.fetchTransitiveGroupMembership)>>]
                            /\ pc' = [pc EXCEPT ![p] = "getGroups"]
                            /\ UNCHANGED result
                       ELSE /\ Return(p, NewIdentity(t, c, <<>>), nil)
                            /\ UNCHANGED <<stack, checkedGroups>>
    /\ UNCHANGED <<conn, directory, op, args, token, calls>>

\* lines 259-280: getGroups has returned to createIdentity
createIdentityGroups(p) ==
    /\ InGetGroups(p)
    /\ op[p] # "getGroups"
    /\ Top(p).pc = "return"
    /\ Len(stack[p]) = 1
    /\ LET groups == Top(p).userGroups
           err == Top(p).err
       IN IF err # nil
          THEN LET r == groupsFailed(args[p].identity, token[p], claims[p], err)
               IN  Return(p, r.identity, r.err)
          ELSE LET w == whitelisted(groups, conn.groups)
               IN IF w.err # nil
                  THEN Return(p, args[p].identity, w.err)
                  ELSE Return(p, NewIdentity(token[p], claims[p], w.groups), nil)
    /\ stack' = [stack EXCEPT ![p] = <<>>]
    /\ UNCHANGED <<conn, directory, op, args, token, claims, checkedGroups, calls>>

-----------------------------------------------------------------------------
(* Specifications *)

\* the group whitelists a connector may be configured with
GroupWhitelists == {<<>>, <<eng>>, <<all>>}

\* the connectors Open may return
Connectors ==
    [redirectURI : {RedirectURI},
     hostedDomains : HostedDomainLists,
     groups : GroupWhitelists,
     fetchTransitiveGroupMembership : BOOLEAN,
     adminSrv : AdminSrvTables]

\* the connector whose routing table alone varies: getGroups reads nothing else
GroupsConnectors ==
    {c \in Connectors : c.hostedDomains = <<>> /\ c.groups = <<>>
                          /\ ~c.fetchTransitiveGroupMembership}

\* directories of the login scenarios: alice in eng in all; the same with all in
\* eng again; alice in both, one group a page; alice in no group
ExampleDirectories ==
    {[m \in Members |-> IF m = alice THEN <<<<eng>>>> ELSE IF m = eng THEN <<<<all>>>>
                                                                  ELSE <<<<>>>>],
     [m \in Members |-> IF m = alice THEN <<<<eng>>>> ELSE IF m = eng THEN <<<<all>>>>
                                                                  ELSE <<<<eng>>>>],
     [m \in Members |-> IF m = alice THEN <<<<eng>>, <<all>>>> ELSE <<<<>>>>],
     [m \in Members |-> <<<<>>>>]}

InitInvocations ==
    /\ pc = [p \in Procs |-> "idle"]
    /\ op = [p \in Procs |-> "none"]
    /\ args = [p \in Procs |-> NoArgs]
    /\ token = [p \in Procs |-> NoToken]
    /\ claims = [p \in Procs |-> NoClaims]
    /\ stack = [p \in Procs |-> <<>>]
    /\ checkedGroups = [p \in Procs |-> {}]
    /\ calls = [p \in Procs |-> <<>>]
    /\ result = [p \in Procs |-> NoResult]

Init ==
    /\ conn \in Connectors
    /\ directory \in ExampleDirectories
    /\ InitInvocations

InitGroups ==
    /\ conn \in GroupsConnectors
    /\ directory \in AllDirectories
    /\ InitInvocations

getGroupsStep(p) ==
    \/ getGroupsList(p)
    \/ getGroupsRange(p)
    \/ getGroupsReturnNested(p)

Next ==
    \E p \in Procs :
        \/ LoginURL(p)
        \/ HandleCallback(p)
        \/ Exchange(p)
        \/ Refresh(p)
        \/ TokenSourceToken(p)
        \/ createIdentityIDToken(p)
        \/ createIdentityVerify(p)
        \/ createIdentityClaims(p)
        \/ getGroupsStep(p)
        \/ createIdentityGroups(p)

NextGroupsOf(p) ==
    \/ CallGetGroups(p)
    \/ getGroupsStep(p)
    \/ getGroupsReturn(p)

NextGroups == \E p \in Procs : NextGroupsOf(p)

Spec == Init /\ [][Next]_vars

SpecGroups == InitGroups /\ [][NextGroups]_vars

-----------------------------------------------------------------------------
(* Config.Open and Close *)

\* the maps from domains to the admin emails to impersonate
DomainToAdminEmails == UNION {[K -> {"adm"}] : K \in SUBSET DomainKeys}

\* the configurations Open is called on: the scope list, the path of the
\* service account file, the deprecated AdminEmail and the map vary
Configs ==
    [RedirectURI : {RedirectURI},
     Scopes : {<<>>, <<"email">>, <<"groups">>},
     HostedDomains : {<<>>},
     Groups : {<<>>},
     ServiceAccountFilePath : {"", "sa.json"},
     AdminEmail : {"", "old"},
     DomainToAdminEmail : DomainToAdminEmails,
     FetchTransitiveGroupMembership : {TRUE}]

\* no connector: before Open, and what a failed Open returns beside its error
NoConnector == [err |-> nil]

IsOpen == "adminSrv" \in DOMAIN conn

\* lines 71-78: the deprecated AdminEmail is entered under the wildcard key
withAdminEmail(c) ==
    IF c.AdminEmail # ""
    THEN [k \in DOMAIN c.DomainToAdminEmail \cup {wildcardDomainToAdminEmail} |->
             IF k = wildcardDomainToAdminEmail THEN c.AdminEmail
             ELSE c.DomainToAdminEmail[k]]
    ELSE c.DomainToAdminEmail

\* lines 87-92: openid, then the configured scopes or profile and email
openScopes(c) ==
    <<"openid">> \o (IF Len(c.Scopes) > 0 THEN c.Scopes ELSE <<"profile", "email">>)

\* mutant: directory services are built only with a service account file
buildsDirectoryServicesFileOnly(serviceAccountFilePath, domainToAdminEmail, scopes) ==
    serviceAccountFilePath # "" /\ Cardinality(DOMAIN domainToAdminEmail) > 0

\* line 104: whether Open builds the directory services at all
buildsDirectoryServices(serviceAccountFilePath, domainToAdminEmail, scopes) ==
    \/ serviceAccountFilePath # "" /\ Cardinality(DOMAIN domainToAdminEmail) > 0
    \/ "groups" \in Range(scopes)

\* lines 70-138: Open, given whether the provider is found and whether the
\* directory services can be created
Open(c, providerOK, createOK) ==
    LET domainToAdminEmail == withAdminEmail(c)
        scopes == openScopes(c)
        builds == buildsDirectoryServices(c.ServiceAccountFilePath, domainToAdminEmail, scopes)
    IN IF ~providerOK
       THEN [err |-> <<"failed to get provider">>]
       ELSE IF Cardinality(DOMAIN domainToAdminEmail) = 0 /\ c.ServiceAccountFilePath # ""
       THEN [err |-> <<"directory service requires the domainToAdminEmail option to be configured">>]
       ELSE IF builds /\ Cardinality(DOMAIN domainToAdminEmail) > 0 /\ ~createOK
       THEN [err |-> <<"could not create directory service">>]
       ELSE [redirectURI |-> c.RedirectURI,
             scopes |-> scopes,
             cancelled |-> FALSE,
             hostedDomains |-> c.HostedDomains,
             groups |-> c.Groups,
             serviceAccountFilePath |-> c.ServiceAccountFilePath,
             domainToAdminEmail |-> domainToAdminEmail,
             fetchTransitiveGroupMembership |-> c.FetchTransitiveGroupMembership,
             adminSrv |-> IF builds
                          THEN [d \in DOMAIN domainToAdminEmail |-> ServiceFor(d)]
                          ELSE [d \in {} |-> ServiceFor(d)]]

OpenConnector ==
    /\ conn = NoConnector
    /\ \E c \in Configs, providerOK \in BOOLEAN, createOK \in BOOLEAN :
          conn' = Open(c, providerOK, createOK)
    /\ UNCHANGED <<directory, pc, op, args, token, claims, stack, checkedGroups, calls, result>>

\* lines 159-162: Close cancels the context Open created
Close ==
    /\ IsOpen
    /\ conn' = [conn EXCEPT !.cancelled = TRUE]
    /\ UNCHANGED <<directory, pc, op, args, token, claims, stack, checkedGroups, calls, result>>

InitOpen ==
    /\ conn = NoConnector
    /\ directory = [m \in Members |-> IF m = alice THEN <<<<eng>>>>
                                      ELSE IF m = eng THEN <<<<all>>>> ELSE <<<<>>>>]
    /\ InitInvocations

NextOpen ==
    \/ OpenConnector
    \/ Close
    \/ IsOpen /\ Next

SpecOpen == InitOpen /\ [][NextOpen]_vars

\* two invocations in flight on one connector
Invocations == {"p1", "p2"}

\* a connector that resolves groups transitively, with a route for every
\* member; alice in eng, eng in all, all in eng
InitConcurrent ==
    /\ conn \in {c \in Connectors : /\ c.hostedDomains = <<HdA>>
                                     /\ c.groups = <<>>
                                     /\ c.fetchTransitiveGroupMembership
                                     /\ DOMAIN c.adminSrv = DomainKeys}
    /\ directory = [m \in Members |-> IF m = alice THEN <<<<eng>>>>
                                      ELSE IF m = eng THEN <<<<all>>>> ELSE <<<<eng>>>>]
    /\ pc = [p \in Invocations |-> "idle"]
    /\ op = [p \in Invocations |-> "none"]
    /\ args = [p \in Invocations |-> NoArgs]
    /\ token = [p \in Invocations |-> NoToken]
    /\ claims = [p \in Invocations |-> NoClaims]
    /\ stack = [p \in Invocations |-> <<>>]
    /\ checkedGroups = [p \in Invocations |-> {}]
    /\ calls = [p \in Invocations |-> <<>>]
    /\ result = [p \in Invocations |-> NoResult]

\* any invocation in flight takes its next step
NextConcurrent ==
    \E p \in Invocations :
        \/ HandleCallback(p)
        \/ Exchange(p)
        \/ Refresh(p)
        \/ TokenSourceToken(p)
        \/ createIdentityIDToken(p)
        \/ createIdentityVerify(p)
        \/ createIdentityClaims(p)
        \/ getGroupsStep(p)
        \/ createIdentityGroups(p)

SpecConcurrent == InitConcurrent /\ [][NextConcurrent]_vars

\* getGroups called on its own by a connector that has a route for every
\* member, the wildcard one
InitWalk ==
    /\ conn \in {c \in GroupsConnectors : DOMAIN c.adminSrv = {wildcardDomainToAdminEmail}}
    /\ directory \in AllDirectories
    /\ InitInvocations

SpecWalk == InitWalk /\ [][NextGroups]_vars

-----------------------------------------------------------------------------
(* Properties of getGroups called on its own (SpecGroups) *)

Count(seq, x) == Cardinality({i \in 1..Len(seq) : seq[i] = x})

Last(seq) == seq[Len(seq)]

\* getGroups was called on its own and has returned
GetGroupsDone(p) == pc[p] = "done" /\ op[p] = "getGroups"

\* some page request of the invocation failed
ListFailed(p) == \E i \in 1..Len(calls[p]) : calls[p][i].kind = "list" /\ ~calls[p][i].ok

\* the routing table has an entry for the member's domain or a wildcard entry
HasRoute(member) ==
    \/ extractDomainFromEmail(member) \in DOMAIN conn.adminSrv
    \/ wildcardDomainToAdminEmail \in DOMAIN conn.adminSrv

NoRouteError == <<"unable to find super admin email">>

\* a list without its repeated elements, first occurrences kept
RECURSIVE Dedup(_, _)
Dedup(seq, seen) ==
    IF seq = <<>> THEN <<>>
    ELSE IF Head(seq) \in seen THEN Dedup(Tail(seq), seen)
         ELSE <<Head(seq)>> \o Dedup(Tail(seq), seen \cup {Head(seq)})

\* C1 (safety half): the sequence getGroups returns holds no group twice, and
\* with transitive expansion and no error every group reachable from the
\* starting member, the groups of a membership cycle included, exactly once.
C1_NoDuplicates ==
    \A p \in Procs :
        GetGroupsDone(p) =>
            /\ \A g \in Groups : Count(result[p].groups, g) <= 1
            /\ (args[p].fetchTransitiveGroupMembership /\ result[p].err = nil) =>
                   \A g \in Closure(args[p].email) : Count(result[p].groups, g) = 1

\* the steps a call for a member takes from page n on, nested calls left out:
\* a request per page and a step per group listed
RECURSIVE PageCost(_, _)
PageCost(pages, n) ==
    IF n > Len(pages) THEN 0 ELSE 1 + Len(pages[n]) + PageCost(pages, n + 1)

\* the steps a whole call for a member takes, its return included
CallCost(member) == PageCost(directory[member], 1) + 1

\* no call costs more: a list of n groups comes on at most n pages (one if empty)
MaxCallCost == 2 * MaxListLen + 2

\* the steps a frame still has to take itself
FrameRank(f) ==
    LET pages == directory[f.email]
        cur == IF f.groupsList.NextPageToken = EmptyPageToken THEN Len(pages)
               ELSE f.groupsList.NextPageToken
        left == Len(f.groupsList.Groups) - f.i
    IN CASE f.pc = "list" -> PageCost(pages, f.groupsList.NextPageToken + 1) + 1
         [] f.pc = "range" -> left + PageCost(pages, cur + 1) + 2
         [] f.pc = "call" -> left + PageCost(pages, cur + 1) + 1
         [] OTHER -> 1

RECURSIVE StackRank(_)
StackRank(frames) ==
    IF frames = <<>> THEN 0 ELSE FrameRank(Head(frames)) + StackRank(Tail(frames))

\* a bound on the steps left to a call of getGroups: every group not yet
\* checked may still cost a whole nested call
Rank(p) ==
    CASE pc[p] = "idle" -> (Cardinality(Groups) + 1) * MaxCallCost + 1
      [] pc[p] = "getGroups" ->
            Cardinality(Groups \ checkedGroups[p]) * MaxCallCost + StackRank(stack[p])
      [] OTHER -> 0

\* C1: for every membership graph, cyclic ones included, and every starting
\* member, a getGroups call returns: every step of the call lowers a bound on
\* the steps left, and the call is never stuck before it has returned; what it
\* returns holds each group at most once (each group of a cycle exactly once).
C1_TerminatesOnce ==
    /\ []C1_NoDuplicates
    /\ [](\A p \in Procs : pc[p] # "done" => ENABLED NextGroupsOf(p))
    /\ [][\A p \in Procs : Rank(p)' < Rank(p)]_vars

\* C1 witness: eng and all are members of each other, the walk starts at eng
\* with transitive expansion, every call succeeded, and both came back once.
C1_Witness ==
    \E p \in Procs :
        /\ GetGroupsDone(p)
        /\ args[p].fetchTransitiveGroupMembership
        /\ args[p].email = eng
        /\ all \in DirectGroups(eng) /\ eng \in DirectGroups(all)
        /\ ~ListFailed(p)
        /\ result[p].err = nil
        /\ result[p].groups = <<all, eng>>

\* C2: with transitive expansion and no failed directory call, a getGroups call
\* started with an empty checked set returns exactly the groups reachable from
\* the starting member through membership edges; it returns an error instead
\* only when the starting member or a reachable group has no route.
C2_TransitiveClosure ==
    \A p \in Procs :
        (GetGroupsDone(p) /\ args[p].fetchTransitiveGroupMembership /\ ~ListFailed(p)) =>
            /\ result[p].err = nil => Range(result[p].groups) = Closure(args[p].email)
            /\ result[p].err # nil =>
                   \E m \in {args[p].email} \cup Closure(args[p].email) : ~HasRoute(m)

\* C2 witness: a successful transitive walk that returned a group the starting
\* member is only indirectly in.
C2_Witness ==
    \E p \in Procs :
        /\ GetGroupsDone(p)
        /\ args[p].fetchTransitiveGroupMembership
        /\ ~ListFailed(p)
        /\ result[p].err = nil
        /\ \E g \in Range(result[p].groups) : g \notin DirectGroups(args[p].email)

\* C3: without transitive expansion getGroups queries the directory for the
\* starting member only, and what it returns without error is exactly the list
\* of groups the directory reports for that member, nothing reached indirectly.
C3_DirectOnly ==
    \A p \in Procs :
        (op[p] = "getGroups" /\ ~args[p].fetchTransitiveGroupMembership) =>
            /\ \A i \in 1..Len(calls[p]) : calls[p][i].userKey = args[p].email
            /\ (pc[p] = "done" /\ result[p].err = nil) =>
                   result[p].groups = Dedup(Flatten(directory[args[p].email]), {})

\* C3 witness: a successful walk without expansion from a member that has a
\* direct group and a merely indirect one.
C3_Witness ==
    \E p \in Procs :
        /\ GetGroupsDone(p)
        /\ ~args[p].fetchTransitiveGroupMembership
        /\ result[p].err = nil
        /\ result[p].groups # <<>>
        /\ Closure(args[p].email) # DirectGroups(args[p].email)

\* C10: no page is ever requested for a member without a route; a call for a
\* starting member without a route returns the no-route error and no groups
\* without any directory query; and a transitive walk in which no page request
\* failed and some reachable group has no route fails with the no-route error.
C10_NoRouteFails ==
    \A p \in Procs :
        /\ \A i \in 1..Len(calls[p]) :
               calls[p][i].kind = "list" =>
                   HasRoute(calls[p][i].userKey) /\ calls[p][i].adminSrv # NoService
        /\ (GetGroupsDone(p) /\ ~HasRoute(args[p].email)) =>
               /\ result[p].err = NoRouteError
               /\ result[p].groups = nil
               /\ calls[p] = <<>>
        /\ (GetGroupsDone(p) /\ args[p].fetchTransitiveGroupMembership /\ ~ListFailed(p)
               /\ \E g \in Closure(args[p].email) : ~HasRoute(g)) =>
               /\ result[p].err # nil
               /\ Last(result[p].err) = Last(NoRouteError)
               /\ result[p].groups = nil

\* C10 witness: the starting member has a route, a group reached from it has
\* none, and the whole call failed with the no-route error.
C10_Witness ==
    \E p \in Procs :
        /\ GetGroupsDone(p)
        /\ HasRoute(args[p].email)
        /\ calls[p] # <<>>
        /\ ~ListFailed(p)
        /\ result[p].err = <<"could not list transitive groups">> \o NoRouteError
        /\ result[p].groups = nil

\* C10, the starting member itself without a route
C10_WitnessTopLevel ==
    \E p \in Procs :
        /\ GetGroupsDone(p)
        /\ ~HasRoute(args[p].email)
        /\ conn.adminSrv # <<>>
        /\ result[p].err = NoRouteError

-----------------------------------------------------------------------------
(* Properties of LoginURL, HandleCallback and Refresh (Spec) *)

\* HandleCallback or Refresh has returned
LoginDone(p) == pc[p] = "done" /\ op[p] \in {"HandleCallback", "Refresh"}

\* the hd claim of an ID token that was verified and decoded
ClaimsDecoded(p) == token[p].hasIDToken /\ token[p].valid /\ token[p].decodes

GroupResolutionError == "google: could not retrieve groups"

HostedDomainError == <<"oidc: unexpected hd claim">>

NoAuthorizedGroupError == <<"google: user is not in any of the required groups">>

\* C4: a call of getGroups that returns an error returns no groups, at every
\* depth of the walk; once a page request has failed the top-level call
\* returns an error and no groups, and HandleCallback or Refresh fails with
\* the group-resolution error and hands back the identity it was given, not
\* one built from the groups gathered before the failure.
C4_AllOrNothing ==
    \A p \in Procs :
        /\ \A k \in 1..Len(stack[p]) :
               (stack[p][k].pc = "return" /\ stack[p][k].err # nil) =>
                   stack[p][k].userGroups = nil
        /\ (ListFailed(p) /\ InGetGroups(p) /\ Len(stack[p]) = 1 /\ Top(p).pc = "return") =>
               Top(p).err # nil /\ Top(p).userGroups = nil
        /\ (ListFailed(p) /\ LoginDone(p)) =>
               /\ result[p].err # nil
               /\ Head(result[p].err) = GroupResolutionError
               /\ result[p].identity = args[p].identity

\* C4 witness: a callback whose walk had gathered a group when a page request
\* of a nested call failed, and which ended with the group-resolution error.
C4_Witness ==
    \E p \in Procs :
        /\ LoginDone(p)
        /\ op[p] = "HandleCallback"
        /\ ListFailed(p)
        /\ checkedGroups[p] # {}
        /\ Last(calls[p]).userKey # claims[p].Email
        /\ Head(result[p].err) = GroupResolutionError
        /\ result[p].identity = EmptyIdentity

\* C5: HandleCallback and Refresh return without error only if no hosted
\* domain is configured or the hd claim is equal, character for character, to
\* a configured one; with hosted domains configured, a verified and decoded
\* token whose hd claim is none of them fails with the hd error.
C5_HostedDomain ==
    \A p \in Procs :
        LoginDone(p) =>
            /\ result[p].err = nil =>
                   \/ conn.hostedDomains = <<>>
                   \/ token[p].HostedDomain \in Range(conn.hostedDomains)
            /\ (ClaimsDecoded(p) /\ conn.hostedDomains # <<>>
                   /\ token[p].HostedDomain \notin Range(conn.hostedDomains)) =>
                   result[p].err = HostedDomainError

\* C5 witness: the configured domain in another case is refused.
C5_Witness ==
    \E p \in Procs :
        /\ LoginDone(p)
        /\ ClaimsDecoded(p)
        /\ conn.hostedDomains = <<HdA>>
        /\ token[p].HostedDomain = HdUpperA
        /\ result[p].err = HostedDomainError

\* the members of a list that are in a set, in the order of the list
RECURSIVE Keep(_, _)
Keep(seq, set) ==
    IF seq = <<>> THEN <<>>
    ELSE (IF Head(seq) \in set THEN <<Head(seq)>> ELSE <<>>) \o Keep(Tail(seq), set)

\* C6: when getGroups has returned the groups R to createIdentity without error:
\* with a whitelist G, the login fails with the no-authorized-group error if no
\* member of R is in G and otherwise succeeds with exactly the members of R that
\* are in G as the identity's groups; without a whitelist it succeeds with R.
C6_WhitelistFilter ==
    [][\A p \in Procs :
          (InGetGroups(p) /\ op[p] # "getGroups" /\ Len(stack[p]) = 1
              /\ Top(p).pc = "return" /\ Top(p).err = nil /\ pc'[p] = "done") =>
             LET R == Top(p).userGroups
                 G == Range(conn.groups)
             IN IF conn.groups = <<>>
                THEN result'[p].err = nil /\ result'[p].identity.Groups = R
                ELSE IF Keep(R, G) = <<>>
                     THEN /\ result'[p].err = NoAuthorizedGroupError
                          /\ result'[p].identity = args[p].identity
                     ELSE /\ result'[p].err = nil
                          /\ result'[p].identity.Groups = Keep(R, G)]_vars

\* C6 witness: a login that resolved two groups and kept the whitelisted one.
C6_Witness ==
    \E p \in Procs :
        /\ LoginDone(p)
        /\ result[p].err = nil
        /\ conn.groups = <<all>>
        /\ checkedGroups[p] = {eng, all}
        /\ result[p].identity.Groups = <<all>>

\* C7: with a group whitelist configured, every HandleCallback or Refresh that
\* returns without error returns an identity holding a whitelisted group.
C7_OnlyListedGroupsLogIn ==
    \A p \in Procs :
        (LoginDone(p) /\ result[p].err = nil /\ conn.groups # <<>>) =>
            \E g \in Range(result[p].identity.Groups) : g \in Range(conn.groups)

\* C8: a callback whose query has a non-empty error parameter fails with the
\* oauth2Error holding the error and the description as sent, and makes no
\* token exchange, no ID-token verification and no directory query.
C8_ProviderDenied ==
    \A p \in Procs :
        (op[p] = "HandleCallback" /\ args[p].q.error # "") =>
            /\ pc[p] = "done"
            /\ result[p].err = <<"oauth2Error", args[p].q.error, args[p].q.error_description>>
            /\ result[p].identity = EmptyIdentity
            /\ calls[p] = <<>>

\* C8 witness: error=access_denied with error_description=user cancelled.
C8_Witness ==
    \E p \in Procs :
        /\ op[p] = "HandleCallback"
        /\ args[p].q.error = "access_denied"
        /\ args[p].q.error_description = "user cancelled"
        /\ result[p].err = <<"oauth2Error", "access_denied", "user cancelled">>

CallbackMismatchError == <<"expected callback URL did not match the URL in the config">>

\* C9: LoginURL with a callback URL other than the configured redirect URI
\* fails with the mismatch error and returns no URL; it returns a URL only for
\* the configured URI itself; and it makes no external call either way.
C9_LoginURLMismatch ==
    \A p \in Procs :
        (pc[p] = "done" /\ op[p] = "LoginURL") =>
            /\ calls[p] = <<>>
            /\ args[p].callbackURL # conn.redirectURI =>
                   result[p].err = CallbackMismatchError /\ result[p].url = NoURL
            /\ args[p].callbackURL = conn.redirectURI =>
                   result[p].err = nil /\ result[p].url.set
                       /\ result[p].url.redirect_uri = conn.redirectURI

\* C9 witness: a callback URL that is a proper prefix of the configured one.
C9_Witness ==
    \E p \in Procs :
        /\ pc[p] = "done" /\ op[p] = "LoginURL"
        /\ args[p].callbackURL = <<"h", "/">>
        /\ result[p].err = CallbackMismatchError
        /\ result[p].url = NoURL

-----------------------------------------------------------------------------
(* Routing of the directory queries (Spec) *)

\* the positions of "@" in an identifier
AtPositions(m) == {k \in 1..Len(m) : m[k] = "@"}

\* what follows the last "@" of an identifier that has one: the one suffix
\* that starts right after an "@" and holds no "@" itself
AfterLastAt(m) ==
    CHOOSE d \in {SubSeq(m, k + 1, Len(m)) : k \in AtPositions(m)} : "@" \notin Range(d)

\* the client the routing table holds for an identifier: the one of its own
\* domain when the table has that domain, the wildcard one otherwise
ClientOf(m) ==
    IF AtPositions(m) # {} /\ AfterLastAt(m) \in DOMAIN conn.adminSrv
    THEN conn.adminSrv[AfterLastAt(m)]
    ELSE conn.adminSrv[wildcardDomainToAdminEmail]

\* C11: every directory query for a member, the starting one or a nested group,
\* goes to the client chosen from that member's own identifier: the client of
\* the domain after its last "@" when the table has that domain (also when the
\* table has a wildcard entry too), otherwise the wildcard client; an
\* identifier without "@" goes to the wildcard client.
C11_RoutedByOwnDomain ==
    \A p \in Procs :
        \A i \in 1..Len(calls[p]) :
            calls[p][i].kind = "list" =>
                LET m == calls[p][i].userKey
                IN /\ \/ AtPositions(m) # {} /\ AfterLastAt(m) \in DOMAIN conn.adminSrv
                      \/ wildcardDomainToAdminEmail \in DOMAIN conn.adminSrv
                   /\ calls[p][i].adminSrv = ClientOf(m)

\* C11 witness: the table has the domain a and the wildcard; in one login of
\* alice the query for e@b@a went to the client of a, not to the wildcard one,
\* and the query for l, which has no "@", went to the wildcard client.
C11_Witness ==
    \E p \in Procs :
        /\ DOMAIN conn.adminSrv = DomainKeys
        /\ claims[p].Email = alice
        /\ \E i, j \in 1..Len(calls[p]) :
              /\ calls[p][i].userKey = eng
              /\ calls[p][i].adminSrv = ServiceFor(<<"a">>)
              /\ calls[p][j].userKey = all
              /\ calls[p][j].adminSrv = ServiceFor(wildcardDomainToAdminEmail)

-----------------------------------------------------------------------------
(* Properties of Open and Close (SpecOpen) *)

\* no entry point changes the routing table of an open connector
TableUnchanged == IsOpen => (IsOpen' /\ conn'.adminSrv = conn.adminSrv)

\* C12 as stated: after Open succeeds the keys of the routing table are the
\* keys of the map from domains to admin emails, whatever the service account
\* path and the scope list are, and the table never changes afterwards.
C12_TableKeysAreMapKeys ==
    /\ [](IsOpen => DOMAIN conn.adminSrv = DOMAIN conn.domainToAdminEmail)
    /\ [][TableUnchanged]_vars

\* C12 amended: after Open succeeds the keys of the routing table are the keys
\* of the map (the deprecated AdminEmail entered under "*") when a service
\* account path is configured or the scope list contains "groups"; otherwise
\* the table is empty whatever the map holds; and no call of HandleCallback,
\* Refresh, getGroups or Close changes the table.
C12_TableBuiltOnDemand ==
    /\ [](IsOpen =>
            IF conn.serviceAccountFilePath # "" \/ "groups" \in Range(conn.scopes)
            THEN DOMAIN conn.adminSrv = DOMAIN conn.domainToAdminEmail
            ELSE DOMAIN conn.adminSrv = {})
    /\ [][TableUnchanged]_vars

\* C12 witness: without a service account path, with the scope groups and a
\* map holding a domain and the wildcard, the table has both keys, and it still
\* has them after a callback has queried the directory and Close was called.
C12_Witness ==
    /\ IsOpen
    /\ conn.serviceAccountFilePath = ""
    /\ "groups" \in Range(conn.scopes)
    /\ DOMAIN conn.domainToAdminEmail = DomainKeys
    /\ DOMAIN conn.adminSrv = DomainKeys
    /\ conn.cancelled
    /\ \E p \in Procs :
          /\ pc[p] = "done" /\ op[p] = "HandleCallback"
          /\ \E i \in 1..Len(calls[p]) : calls[p][i].kind = "list"

-----------------------------------------------------------------------------
(* Properties of the token lifecycle (Spec) *)

TokenError == "google: failed to get token"

\* Refresh has gone past its token source
PastTokenSource(p) == op[p] = "Refresh" /\ pc[p] \notin {"idle", "tokenSource"}

\* every token request of the invocation is the first call it made and
\* presents the refresh token of the identity the invocation was given
RefreshPresentsStored(p) ==
    \A i \in 1..Len(calls[p]) :
        calls[p][i].kind = "refresh" =>
            i = 1 /\ calls[p][i].grant = args[p].identity.ConnectorData

\* an identity returned without error holds the refresh token of the token
\* in hand
IdentityHoldsRefreshToken(p) ==
    (LoginDone(p) /\ result[p].err = nil) =>
        result[p].identity.ConnectorData = token[p].RefreshToken

\* C13 as stated: every identity HandleCallback or Refresh returns without
\* error holds the refresh token of the token response it was built from, and
\* every Refresh makes a token request that presents the refresh token stored
\* in the identity it was given.
C13_AlwaysRequestsToken ==
    \A p \in Procs :
        /\ IdentityHoldsRefreshToken(p)
        /\ RefreshPresentsStored(p)
        /\ PastTokenSource(p) => (calls[p] # <<>> /\ calls[p][1].kind = "refresh")

\* C13 amended: as stated, but the token request is made whenever the stored
\* refresh token is not empty; with an empty one Refresh fails with the token
\* error, hands back the identity it was given and makes no request.
C13_TokenCarriedForward ==
    \A p \in Procs :
        /\ IdentityHoldsRefreshToken(p)
        /\ RefreshPresentsStored(p)
        /\ PastTokenSource(p) =>
               IF args[p].identity.ConnectorData # ""
               THEN calls[p] # <<>> /\ calls[p][1].kind = "refresh"
               ELSE /\ calls[p] = <<>>
                    /\ pc[p] = "done"
                    /\ Head(result[p].err) = TokenError
                    /\ result[p].identity = args[p].identity

\* C13 witness: a Refresh that presented the stored rt0, was answered with
\* rt1 and returned an identity holding rt1.
C13_Witness ==
    \E p \in Procs :
        /\ LoginDone(p) /\ op[p] = "Refresh"
        /\ result[p].err = nil
        /\ calls[p][1].kind = "refresh" /\ calls[p][1].grant = "rt0"
        /\ args[p].identity.ConnectorData = "rt0"
        /\ token[p].RefreshToken = "rt1"
        /\ result[p].identity.ConnectorData = "rt1"

-----------------------------------------------------------------------------
(* Properties of the walk: expansions, pages and order (SpecGroups, SpecWalk) *)

\* the calls of getGroups made for a member so far: each call that finds a
\* route requests the member's first page once, with the empty page token
Expansions(p, member) ==
    {i \in 1..Len(calls[p]) :
        /\ calls[p][i].kind = "list"
        /\ calls[p][i].userKey = member
        /\ calls[p][i].pageToken = EmptyPageToken}

\* C14: during one top-level getGroups call with transitive expansion every
\* group is expanded at most once, whatever the membership graph and the
\* starting member, a starting group on a membership cycle included.
C14_ExpandedAtMostOnce ==
    \A p \in Procs :
        (op[p] = "getGroups" /\ args[p].fetchTransitiveGroupMembership) =>
            \A g \in Groups : Cardinality(Expansions(p, g)) <= 1

IsPrefix(s, t) == Len(s) <= Len(t) /\ SubSeq(t, 1, Len(s)) = s

\* the page tokens of the requests made for a member so far, in order
RECURSIVE TokensOf(_, _)
TokensOf(log, member) ==
    IF log = <<>> THEN <<>>
    ELSE (IF Head(log).kind = "list" /\ Head(log).userKey = member
          THEN <<Head(log).pageToken>> ELSE <<>>) \o TokensOf(Tail(log), member)

\* the page tokens a complete listing of a member presents: the given token,
\* then the token each page returned, up to the page that returns the empty one
RECURSIVE TokenChain(_, _)
TokenChain(member, pageToken) ==
    LET next == GroupsListDo(member, pageToken).NextPageToken
    IN <<pageToken>> \o (IF next = EmptyPageToken THEN <<>> ELSE TokenChain(member, next))

\* a listing into which a second listing of the same member was nested after
\* its k-th page (a starting group reached again through a cycle, see C14)
Reentered(chain, k) == SubSeq(chain, 1, k) \o chain \o SubSeq(chain, k + 1, Len(chain))

\* the members getGroups was called for and had a route for
Queried(p) == {m \in Members : TokensOf(calls[p], m) # <<>>}

\* C17: the requests for a member start with the empty page token, each next
\* one presents the token the page before returned, and none follows a page
\* that returned the empty token; a nested call leaves the token chain of the
\* loop that made it as it was; a call that returns without error has listed
\* every member it queried to its last page and returns the groups of all
\* those pages.
C17_PagesInSequence ==
    \A p \in Procs :
        op[p] = "getGroups" =>
            \A m \in Members :
                LET chain == TokenChain(m, EmptyPageToken)
                    asked == TokensOf(calls[p], m)
                IN /\ \/ IsPrefix(asked, chain)
                      \/ /\ m = args[p].email
                         /\ \E k \in 1..Len(chain) : IsPrefix(asked, Reentered(chain, k))
                   /\ (pc[p] = "done" /\ result[p].err = nil /\ m \in Queried(p)) =>
                         /\ \/ asked = chain
                            \/ /\ m = args[p].email
                               /\ \E k \in 1..Len(chain) : asked = Reentered(chain, k)
                         /\ DirectGroups(m) \subseteq Range(result[p].groups)
                   /\ (pc[p] = "done" /\ result[p].err = nil) => args[p].email \in Queried(p)

\* C17 witness: alice has eng on her first page and all on her second, eng has
\* a group of its own; the walk asked alice's first page, then eng's, then
\* alice's second page with the token the first returned, and returned both.
C17_Witness ==
    \E p \in Procs :
        /\ GetGroupsDone(p)
        /\ args[p].email = alice
        /\ args[p].fetchTransitiveGroupMembership
        /\ result[p].err = nil
        /\ directory[alice] = <<<<eng>>, <<all>>>>
        /\ Len(calls[p]) >= 3
        /\ calls[p][1].userKey = alice /\ calls[p][1].pageToken = EmptyPageToken
        /\ calls[p][2].userKey = eng
        /\ \E i \in 3..Len(calls[p]) :
              /\ calls[p][i].userKey = alice
              /\ calls[p][i].pageToken = GroupsListDo(alice, EmptyPageToken).NextPageToken
              /\ calls[p][i].pageToken # EmptyPageToken
        /\ {eng, all} \subseteq Range(result[p].groups)

\* depth-first discovery over a list of groups: a group not seen before is put
\* out, followed at once (with expansion) by what is newly discovered through
\* its own listing, and only then the rest of the list is gone through
RECURSIVE Discover(_, _, _)
Discover(list, seen, transitive) ==
    IF list = <<>> THEN [out |-> <<>>, seen |-> seen]
    ELSE LET g == Head(list)
         IN IF g \in seen THEN Discover(Tail(list), seen, transitive)
            ELSE LET through == IF transitive
                                THEN Discover(Flatten(directory[g]), seen \cup {g}, transitive)
                                ELSE [out |-> <<>>, seen |-> seen \cup {g}]
                     rest == Discover(Tail(list), through.seen, transitive)
                 IN [out |-> <<g>> \o through.out \o rest.out, seen |-> rest.seen]

C18_WitnessScenario ==
    \E p \in Procs :
        /\ GetGroupsDone(p)
        /\ args[p].email = alice
        /\ args[p].fetchTransitiveGroupMembership
        /\ Flatten(directory[alice]) = <<eng>>
        /\ Flatten(directory[eng]) = <<all>>
        /\ result[p].groups = <<eng, all>>

-----------------------------------------------------------------------------
(* Properties of the external calls of HandleCallback and Refresh (Spec) *)

IsLogin(p) == op[p] \in {"HandleCallback", "Refresh"}

\* the positions in the call log of the calls of some kinds
CallsOfKind(p, kinds) == {i \in 1..Len(calls[p]) : calls[p][i].kind \in kinds}

\* some external call of the invocation failed
CallFailed(p) == \E i \in 1..Len(calls[p]) : ~calls[p][i].ok

\* C15: within one HandleCallback or Refresh nothing is retried: at most one
\* token request (exchange or refresh), at most one ID-token verification, no
\* page of a member requested twice; a failed call is the last call of the
\* invocation, and the invocation then returns an error.
C15_NothingRetried ==
    \A p \in Procs :
        IsLogin(p) =>
            /\ Cardinality(CallsOfKind(p, {"exchange", "refresh"})) <= 1
            /\ Cardinality(CallsOfKind(p, {"verify"})) <= 1
            /\ \A i, j \in CallsOfKind(p, {"list"}) :
                   (calls[p][i].userKey = calls[p][j].userKey
                       /\ calls[p][i].pageToken = calls[p][j].pageToken) => i = j
            /\ \A i \in 1..Len(calls[p]) : ~calls[p][i].ok => i = Len(calls[p])
            /\ (CallFailed(p) /\ pc[p] = "done") => result[p].err # nil

\* C15 witness: a callback whose exchange, verification and first page request
\* succeeded, whose page request for a nested group failed, and which returned
\* an error with that failed request as its last call.
C15_Witness ==
    \E p \in Procs :
        /\ LoginDone(p) /\ op[p] = "HandleCallback"
        /\ Len(calls[p]) = 4
        /\ calls[p][1].kind = "exchange" /\ calls[p][1].ok
        /\ calls[p][2].kind = "verify" /\ calls[p][2].ok
        /\ calls[p][3].kind = "list" /\ calls[p][3].ok
        /\ calls[p][4].kind = "list" /\ ~calls[p][4].ok
        /\ calls[p][4].userKey # calls[p][3].userKey
        /\ result[p].err # nil

\* the hosted-domain check of createIdentity passes for the token in hand
HostedDomainPassed(p) ==
    conn.hostedDomains = <<>> \/ token[p].HostedDomain \in Range(conn.hostedDomains)

\* C16: in every HandleCallback or Refresh a directory query is issued only
\* after a successful token request and then a successful verification of an
\* ID token that was present, for claims that passed the hosted-domain check,
\* and only when the group scope was requested and the routing table is not
\* empty; the whitelist is applied only to groups that were resolved.
C16_StepsInOrder ==
    \A p \in Procs :
        IsLogin(p) =>
            /\ \A i \in CallsOfKind(p, {"list"}) :
                   /\ i >= 3
                   /\ calls[p][1].kind \in {"exchange", "refresh"} /\ calls[p][1].ok
                   /\ calls[p][2].kind = "verify" /\ calls[p][2].ok
                   /\ token[p].hasIDToken /\ token[p].valid /\ token[p].decodes
                   /\ HostedDomainPassed(p)
                   /\ args[p].s.Groups
                   /\ DOMAIN conn.adminSrv # {}
            /\ \A i \in CallsOfKind(p, {"verify"}) :
                   /\ i = 2
                   /\ calls[p][1].kind \in {"exchange", "refresh"} /\ calls[p][1].ok
                   /\ token[p].hasIDToken
            /\ \A i \in CallsOfKind(p, {"exchange", "refresh"}) : i = 1
            /\ (pc[p] = "done" /\ result[p].err = NoAuthorizedGroupError) =>
                   /\ CallsOfKind(p, {"list"}) # {}
                   /\ ~CallFailed(p)

\* C16 witness: a Refresh with hosted domains configured that went through the
\* token request, the verification and the hosted-domain check, queried the
\* directory and was refused by the whitelist.
C16_Witness ==
    \E p \in Procs :
        /\ LoginDone(p) /\ op[p] = "Refresh"
        /\ conn.hostedDomains # <<>>
        /\ Len(calls[p]) >= 3
        /\ calls[p][1].kind = "refresh"
        /\ calls[p][2].kind = "verify"
        /\ calls[p][3].kind = "list"
        /\ result[p].err = NoAuthorizedGroupError

-----------------------------------------------------------------------------
(* Properties of concurrent invocations (SpecConcurrent) *)

\* what HandleCallback or Refresh returns for the arguments, the token answer
\* and the call outcomes of an invocation when nothing else is in flight, for
\* a connector with a wildcard route; the error of a failed listing is left as
\* returned here and stated in C19_NoInterference
SoloResult(p) ==
    LET given == IF op[p] = "HandleCallback" THEN EmptyIdentity ELSE args[p].identity
        t == token[p]
        R == Discover(Flatten(directory[t.Email]), {}, conn.fetchTransitiveGroupMembership).out
        kept == IF conn.groups = <<>> THEN R ELSE Keep(R, Range(conn.groups))
        built(groups) ==
            [UserID |-> t.Subject, Username |-> t.Username, Email |-> t.Email,
             EmailVerified |-> t.EmailVerified, ConnectorData |-> t.RefreshToken,
             Groups |-> groups]
        failed(err) == [identity |-> given, err |-> err]
    IN IF op[p] = "HandleCallback" /\ args[p].q.error # ""
       THEN failed(<<"oauth2Error", args[p].q.error, args[p].q.error_description>>)
       ELSE IF op[p] = "Refresh" /\ given.ConnectorData = ""
       THEN failed(<<TokenError, "refresh token is not set">>)
       ELSE IF ~calls[p][1].ok
       THEN failed(<<TokenError, IF op[p] = "Refresh" THEN "refresh failed"
                                 ELSE "exchange failed">>)
       ELSE IF ~t.hasIDToken THEN failed(<<"google: no id_token in token response">>)
       ELSE IF ~t.valid THEN failed(<<"google: failed to verify ID Token", "verify failed">>)
       ELSE IF ~t.decodes THEN failed(<<"oidc: failed to decode claims", "decode failed">>)
       ELSE IF ~HostedDomainPassed(p) THEN failed(HostedDomainError)
       ELSE IF ~(args[p].s.Groups /\ DOMAIN conn.adminSrv # {})
       THEN [identity |-> built(<<>>), err |-> nil]
       ELSE IF ListFailed(p) THEN failed(result[p].err)
       ELSE IF conn.groups # <<>> /\ kept = <<>> THEN failed(NoAuthorizedGroupError)
       ELSE [identity |-> built(kept), err |-> nil]

\* the groups on the pages an invocation itself has been answered with
OwnPages(p) ==
    UNION {Range(GroupsListDo(calls[p][i].userKey, calls[p][i].pageToken).Groups) :
               i \in {j \in CallsOfKind(p, {"list"}) : calls[p][j].ok}}

\* C19: with two invocations interleaved in every way on one connector, each
\* HandleCallback or Refresh returns what it returns when run alone for its
\* arguments, token answer and call outcomes; two invocations with the same of
\* those return the same; the checked set of an invocation holds only groups
\* from pages the invocation itself was answered with; and no step changes the
\* connector.
C19_NoInterference ==
    /\ [](\A p \in Invocations :
            /\ checkedGroups[p] \subseteq OwnPages(p)
            /\ LoginDone(p) =>
                   /\ result[p].identity = SoloResult(p).identity
                   /\ result[p].err = SoloResult(p).err
                   /\ ListFailed(p) =>
                          /\ Head(result[p].err) = GroupResolutionError
                          /\ Last(result[p].err) = "could not list groups")
    /\ [](\A p, q \in Invocations :
            (LoginDone(p) /\ LoginDone(q) /\ op[p] = op[q] /\ args[p] = args[q]
                /\ token[p] = token[q] /\ calls[p] = calls[q]) =>
                result[p] = result[q])
    /\ [][conn' = conn]_vars

\* C19 witness: a callback has returned both groups while a Refresh on the
\* same connector is in the middle of its own walk, having checked eng only.
C19_Witness ==
    /\ pc["p1"] = "done" /\ op["p1"] = "HandleCallback"
    /\ result["p1"].err = nil
    /\ result["p1"].identity.Groups = <<eng, all>>
    /\ pc["p2"] = "getGroups" /\ op["p2"] = "Refresh"
    /\ checkedGroups["p2"] = {eng}

\* C19, both walks in flight at once with different checked sets
C19_WitnessBothWalking ==
    /\ pc["p1"] = "getGroups" /\ checkedGroups["p1"] = {eng}
    /\ pc["p2"] = "getGroups" /\ checkedGroups["p2"] = {eng, all}

-----------------------------------------------------------------------------
(* Properties of the failure paths (Spec) *)

\* the identity holds the subject, the claims and the refresh token of the
\* token in hand
FromToken(identity, t) ==
    /\ identity.UserID = t.Subject
    /\ identity.Username = t.Username
    /\ identity.Email = t.Email
    /\ identity.EmailVerified = t.EmailVerified
    /\ identity.ConnectorData = t.RefreshToken

\* C20: whenever Refresh returns an error it returns the identity it was given
\* with every field as it was; whenever HandleCallback returns an error it
\* returns the empty identity; and an identity is built from the new token
\* only on success, after a token request, a verification and a decoding
\* that succeeded.
C20_FailureKeepsIdentity ==
    \A p \in Procs :
        LoginDone(p) =>
            /\ (result[p].err # nil /\ op[p] = "Refresh") =>
                   /\ result[p].identity = args[p].identity
                   /\ result[p].identity \in RefreshIdentities
            /\ (result[p].err # nil /\ op[p] = "HandleCallback") =>
                   result[p].identity = EmptyIdentity
            /\ result[p].err = nil =>
                   /\ FromToken(result[p].identity, token[p])
                   /\ ClaimsDecoded(p)
                   /\ ~CallFailed(p)
            /\ CallFailed(p) => result[p].err # nil

\* C20 witness: a Refresh that got a new token with rt1 and resolved groups
\* but was refused by the whitelist, and returned the stored identity, rt0 and
\* its old groups included.
C20_Witness ==
    \E p \in Procs :
        /\ LoginDone(p) /\ op[p] = "Refresh"
        /\ token[p].RefreshToken = "rt1"
        /\ token[p].Subject = "sub1"
        /\ checkedGroups[p] # {}
        /\ result[p].err = NoAuthorizedGroupError
        /\ result[p].identity = StoredIdentity

\* C20, a callback failing late: the groups could not be resolved
C20_WitnessCallback ==
    \E p \in Procs :
        /\ LoginDone(p) /\ op[p] = "HandleCallback"
        /\ ClaimsDecoded(p)
        /\ result[p].err # nil
        /\ Head(result[p].err) = GroupResolutionError
        /\ result[p].identity = EmptyIdentity

-----------------------------------------------------------------------------
(* Properties of the hosted-domain hint (Spec) *)

\* C21: a URL LoginURL returns carries an hd parameter exactly when a hosted
\* domain is configured: the configured domain when there is one, "*" when
\* there are more; and whatever hint that is, a callback or refresh whose
\* verified claims hold an hd that is none of the configured domains is
\* refused with the hd error, and none succeeds with such an hd.
C21_HintAndPostCheck ==
    \A p \in Procs :
        /\ (pc[p] = "done" /\ op[p] = "LoginURL" /\ result[p].err = nil) =>
               /\ result[p].url.hd # <<>> <=> Len(conn.hostedDomains) >= 1
               /\ Len(conn.hostedDomains) = 1 => result[p].url.hd = <<conn.hostedDomains[1]>>
               /\ Len(conn.hostedDomains) > 1 => result[p].url.hd = << <<"*">> >>
        /\ (LoginDone(p) /\ conn.hostedDomains # <<>>) =>
               /\ ClaimsDecoded(p) =>
                      (result[p].err = HostedDomainError
                          <=> token[p].HostedDomain \notin Range(conn.hostedDomains))
               /\ result[p].err = nil => token[p].HostedDomain \in Range(conn.hostedDomains)

\* C21 witness: two hosted domains are configured and the URL carries hd=*.
C21_Witness ==
    \E p \in Procs :
        /\ pc[p] = "done" /\ op[p] = "LoginURL"
        /\ result[p].err = nil
        /\ conn.hostedDomains = <<HdA, HdB>>
        /\ result[p].url.hd = << <<"*">> >>

\* C21, the check behind the wildcard hint: with the same two domains a
\* callback whose hd claim is a third one is refused
C21_WitnessPostCheck ==
    \E p \in Procs :
        /\ LoginDone(p) /\ op[p] = "HandleCallback"
        /\ ClaimsDecoded(p)
        /\ conn.hostedDomains = <<HdA, HdB>>
        /\ token[p].HostedDomain = HdAB
        /\ result[p].err = HostedDomainError

====
